---- MODULE Spec2Model ----
(***************************************************************************)
(* RustBerry PoE monitor: start-up (PoeDisplay::new, main), the main loop  *)
(* and PoeDisplay::update_display with its layout arithmetic.              *)
(*                                                                         *)
(* Text is a sequence of characters (one-character strings); the           *)
(* character "U+00B0" stands for the degree sign, the one non-ASCII glyph  *)
(* of GLYPH_MAPPING.  Option<T> is a sequence of length 0 (None) or 1      *)
(* (Some).  A PositionValue is a record tagged by kind.                    *)
(***************************************************************************)
EXTENDS Integers, Sequences, FiniteSets, TLC

VARIABLES
    pc,                    \* position of the main thread
    doc,                   \* the configuration document on disk
    startup_error,         \* why start-up failed ("none" when it did not)
    rotation,              \* rotation handed to Ssd1306::new
    init_orientation,      \* orientation argument of PoeDisplay::new
    config,                \* PoeDisplay.config
    orientation_name,      \* argument of the running update_display call
    telemetry,             \* telemetry arguments of the running call
    elem_i,                \* index of the element the for loop is at
    prepared_components,   \* Vec<PreparedComponent> of the current element
    total_element_width,
    x_position,
    y_position,
    current_x,
    comp_i,                \* draw loop: component index
    part,                  \* draw loop: 1 prefix, 2 value, 3 suffix
    framebuffer,           \* runs drawn into the buffer since the last clear
    fb_mark,               \* Len(framebuffer) when the current element began
    committed,             \* frame last flushed to the panel
    result,                \* result of the last update_display call
    oplog,                 \* transport operations of the running call
    committed_at_call,     \* committed when the running call began
    consec_fail,           \* consecutive failed calls (saturating)
    hpc,                   \* position of main between start-up and the loop end
    iteration_count,
    network_check_counter,
    ip_info,
    previous_ip_info,
    is_running,            \* fan_controller.is_running
    temp_on,               \* fan_controller.temp_on
    temp_off,              \* fan_controller.temp_off
    cpu_temp,
    fan_log,               \* fan commands requested in the current cycle
    running_before,        \* is_running when the current cycle's check began
    initial_off,           \* the fan_off before the loop was requested
    IP_ADDRESSES,
    CURRENT_INDEX,
    elapsed,               \* LAST_IP_REFRESH.elapsed(), in seconds
    holder,                \* the thread holding each mutex
    tpc,                   \* position of each thread in get_local_ip
    ret,                   \* value returned to each thread by get_local_ip
    last_call,             \* what the last run of get_local_ip's body saw
    window                 \* indices returned since the last refresh

render_vars == <<pc, doc, startup_error, rotation, init_orientation, config, orientation_name,
                 telemetry, elem_i, prepared_components, total_element_width,
                 x_position, y_position, current_x, comp_i, part, framebuffer,
                 fb_mark, committed, result, oplog, committed_at_call, consec_fail>>

host_vars == <<hpc, iteration_count, network_check_counter, ip_info,
               previous_ip_info, is_running, temp_on, temp_off, cpu_temp,
               fan_log, running_before, initial_off>>

cache_vars == <<IP_ADDRESSES, CURRENT_INDEX, elapsed, holder, tpc, ret,
                last_call, window>>

vars == <<render_vars, host_vars, cache_vars>>

(***************************************************************************)
(* Bounds                                                                  *)
(***************************************************************************)
MaxConsecFail == 2

(***************************************************************************)
(* Strings                                                                 *)
(***************************************************************************)
DegreeSign == "U+00B0"

\* bytes of the UTF-8 encoding of one character
Utf8Len(c) == IF c = DegreeSign THEN 2 ELSE 1

\* str::len(): the length in bytes
RECURSIVE str_len(_)
str_len(s) == IF s = <<>> THEN 0 ELSE Utf8Len(Head(s)) + str_len(Tail(s))

\* the number of characters, s.chars().count()
chars_count(s) == Len(s)

Digit(d) == <<"0", "1", "2", "3", "4", "5", "6", "7", "8", "9">>[d + 1]

\* u8::to_string(): decimal, no leading zeros
RECURSIVE u8_to_string(_)
u8_to_string(n) ==
    IF n < 10 THEN <<Digit(n)>>
    ELSE Append(u8_to_string(n \div 10), Digit(n % 10))

S_interface_phys == <<"i", "n", "t", "e", "r", "f", "a", "c", "e", "_", "p", "h", "y", "s">>
S_interface_numvlan == <<"i", "n", "t", "e", "r", "f", "a", "c", "e", "_", "n", "u", "m", "v", "l", "a", "n">>
S_ip_info_0 == <<"i", "p", "_", "i", "n", "f", "o", ".", "0">>
S_ip_octets_0 == <<"i", "p", "_", "o", "c", "t", "e", "t", "s", "(", "0", ")">>
S_ip_octets_1 == <<"i", "p", "_", "o", "c", "t", "e", "t", "s", "(", "1", ")">>
S_ip_octets_2 == <<"i", "p", "_", "o", "c", "t", "e", "t", "s", "(", "2", ")">>
S_ip_octets_3 == <<"i", "p", "_", "o", "c", "t", "e", "t", "s", "(", "3", ")">>
S_cpu_usage == <<"c", "p", "u", "_", "u", "s", "a", "g", "e">>
S_cpu_temp == <<"c", "p", "u", "_", "t", "e", "m", "p">>
S_ram_usage == <<"r", "a", "m", "_", "u", "s", "a", "g", "e">>
S_disk_usage == <<"d", "i", "s", "k", "_", "u", "s", "a", "g", "e">>

(***************************************************************************)
(* Fonts                                                                   *)
(***************************************************************************)
FontNames == {"FONT_5X8", "FONT_6X12", "PCSENIOR8_STYLE", "PROFONT12", "PROFONT9"}

\* a font match whose fallback arm is FONT_6X12
font_of_6x12(name) == IF name \in FontNames THEN name ELSE "FONT_6X12"

\* match <font name> { ... _ => FONT_5X8 }
font_of(name) == IF name \in FontNames THEN name ELSE "FONT_5X8"

character_size_width(font) ==
    CASE font = "FONT_5X8"        -> 5
      [] font = "FONT_6X12"       -> 6
      [] font = "PCSENIOR8_STYLE" -> 8
      [] font = "PROFONT12"       -> 8
      [] font = "PROFONT9"        -> 6

character_spacing(font) == 0

get_char_width_from_text_style(font_style) ==
    character_size_width(font_style) + character_spacing(font_style)

(***************************************************************************)
(* update_display: resolving and measuring the components of an element    *)
(***************************************************************************)
\* value_text_of with the cpu_temp and cpu_usage arms exchanged
value_text_of_swapped(text, t) ==
    CASE text = S_interface_phys    -> t.interface_phys
      [] text = S_interface_numvlan -> t.interface_numvlan
      [] text = S_ip_info_0         -> t.ip_info[1]
      [] text = S_ip_octets_0       -> u8_to_string(t.ip_octets[1])
      [] text = S_ip_octets_1       -> u8_to_string(t.ip_octets[2])
      [] text = S_ip_octets_2       -> u8_to_string(t.ip_octets[3])
      [] text = S_ip_octets_3       -> u8_to_string(t.ip_octets[4])
      [] text = S_cpu_usage         -> t.cpu_temp_str
      [] text = S_cpu_temp          -> t.cpu_usage
      [] text = S_ram_usage         -> t.ram_usage
      [] text = S_disk_usage        -> t.disk_usage
      [] OTHER                      -> text

value_text_of(text, t) ==
    CASE text = S_interface_phys    -> t.interface_phys
      [] text = S_interface_numvlan -> t.interface_numvlan
      [] text = S_ip_info_0         -> t.ip_info[1]
      [] text = S_ip_octets_0       -> u8_to_string(t.ip_octets[1])
      [] text = S_ip_octets_1       -> u8_to_string(t.ip_octets[2])
      [] text = S_ip_octets_2       -> u8_to_string(t.ip_octets[3])
      [] text = S_ip_octets_3       -> u8_to_string(t.ip_octets[4])
      [] text = S_cpu_usage         -> t.cpu_usage
      [] text = S_cpu_temp          -> t.cpu_temp_str
      [] text = S_ram_usage         -> t.ram_usage
      [] text = S_disk_usage        -> t.disk_usage
      [] OTHER                      -> text

\* value_text.len() as i32 * char_width
run_width(text, font) == str_len(text) * get_char_width_from_text_style(font)

\* the (text, font, width) triple of an optional prefix or suffix
affix_text(affix) == IF affix = <<>> THEN <<>> ELSE <<affix[1].text>>
affix_font(affix) == IF affix = <<>> THEN <<>> ELSE <<font_of(affix[1].font)>>
affix_width(affix) ==
    IF affix = <<>> THEN 0
    ELSE run_width(affix[1].text, font_of(affix[1].font))

PreparedComponent(component, t) ==
    LET vt == value_text_of(component.value.text, t)
        vf == font_of(component.value.font)
        vw == run_width(vt, vf)
        pw == affix_width(component.prefix)
        sw == affix_width(component.suffix)
    IN  [value_text   |-> vt,
         value_font   |-> vf,
         value_width  |-> vw,
         prefix_text  |-> affix_text(component.prefix),
         prefix_font  |-> affix_font(component.prefix),
         prefix_width |-> pw,
         suffix_text  |-> affix_text(component.suffix),
         suffix_font  |-> affix_font(component.suffix),
         suffix_width |-> sw,
         total_width  |-> pw + vw + sw]

prepare(element, t) ==
    [i \in 1..Len(element.components) |->
        PreparedComponent(element.components[i], t)]

RECURSIVE sum_total_width(_)
sum_total_width(prepared) ==
    IF prepared = <<>> THEN 0
    ELSE prepared[1].total_width + sum_total_width(Tail(prepared))

(***************************************************************************)
(* update_display: position resolution                                     *)
(***************************************************************************)
\* i32 division by a positive divisor: truncates toward zero
i32_div(a, b) == IF a >= 0 THEN a \div b ELSE -((-a) \div b)

\* resolve_x with a negative keyword result clamped to the canvas
resolve_x_clamped(x, width, element_width) ==
    CASE x.kind = "Text" ->
           (CASE x.val = "center" ->
                   IF width < element_width THEN 0
                   ELSE i32_div(width - element_width, 2)
              [] x.val = "left"   -> 0
              [] x.val = "right"  ->
                   IF width < element_width THEN 0
                   ELSE width - element_width
              [] OTHER            -> 0)
      [] x.kind = "Number" -> x.val
      [] x.kind = "Relative" ->
           (CASE x.align = "center" -> x.anchor - i32_div(element_width, 2)
              [] x.align = "left"   -> x.anchor
              [] x.align = "right"  -> x.anchor - element_width
              [] OTHER              -> x.anchor)

\* resolve_x with the anchor-relative center taken like the keyword center
resolve_x_halved(x, width, element_width) ==
    CASE x.kind = "Text" ->
           (CASE x.val = "center" -> i32_div(width - element_width, 2)
              [] x.val = "left"   -> 0
              [] x.val = "right"  -> width - element_width
              [] OTHER            -> 0)
      [] x.kind = "Number" -> x.val
      [] x.kind = "Relative" ->
           (CASE x.align = "center" -> i32_div(x.anchor - element_width, 2)
              [] x.align = "left"   -> x.anchor
              [] x.align = "right"  -> x.anchor - element_width
              [] OTHER              -> x.anchor)

\* resolve_x with an unknown keyword or align treated like "right"
resolve_x_unknown_right(x, width, element_width) ==
    CASE x.kind = "Text" ->
           (CASE x.val = "center" -> i32_div(width - element_width, 2)
              [] x.val = "left"   -> 0
              [] x.val = "right"  -> width - element_width
              [] OTHER            -> width - element_width)
      [] x.kind = "Number" -> x.val
      [] x.kind = "Relative" ->
           (CASE x.align = "center" -> x.anchor - i32_div(element_width, 2)
              [] x.align = "left"   -> x.anchor
              [] x.align = "right"  -> x.anchor - element_width
              [] OTHER              -> x.anchor - element_width)

resolve_x(x, width, element_width) ==
    CASE x.kind = "Text" ->
           (CASE x.val = "center" -> i32_div(width - element_width, 2)
              [] x.val = "left"   -> 0
              [] x.val = "right"  -> width - element_width
              [] OTHER            -> 0)
      [] x.kind = "Number" -> x.val
      [] x.kind = "Relative" ->
           (CASE x.align = "center" -> x.anchor - i32_div(element_width, 2)
              [] x.align = "left"   -> x.anchor
              [] x.align = "right"  -> x.anchor - element_width
              [] OTHER              -> x.anchor)

\* resolve_y with "incrementing" moved down one text line
resolve_y_line(y) ==
    CASE y.kind = "Text" ->
           (CASE y.val = "incrementing" -> 12
              [] OTHER                  -> 0)
      [] y.kind = "Number" -> y.val
      [] y.kind = "Relative" -> y.anchor

resolve_y(y) ==
    CASE y.kind = "Text" ->
           (CASE y.val = "incrementing" -> 0
              [] OTHER                  -> 0)
      [] y.kind = "Number" -> y.val
      [] y.kind = "Relative" -> y.anchor

\* orientation_block that takes the landscape block only for "landscape"
orientation_block_inverted(cfg, name) ==
    IF name = "landscape" THEN cfg.orientations.landscape
    ELSE cfg.orientations.portrait

\* let orientation = match orientation_name { "portrait" => ..., _ => ... }
orientation_block(cfg, name) ==
    IF name = "portrait" THEN cfg.orientations.portrait
    ELSE cfg.orientations.landscape

(***************************************************************************)
(* update_display: the draw loop.  The cursor (comp_i, part) names the     *)
(* run the loop draws next; an absent prefix or suffix is skipped by the   *)
(* `if let`.                                                               *)
(***************************************************************************)
run_present(c, p) ==
    CASE p = 1 -> c.prefix_text # <<>> /\ c.prefix_font # <<>>
      [] p = 2 -> TRUE
      [] p = 3 -> c.suffix_text # <<>> /\ c.suffix_font # <<>>

run_at(c, p) ==
    CASE p = 1 -> [text |-> c.prefix_text[1], font |-> c.prefix_font[1],
                   width |-> c.prefix_width]
      [] p = 2 -> [text |-> c.value_text, font |-> c.value_font,
                   width |-> c.value_width]
      [] p = 3 -> [text |-> c.suffix_text[1], font |-> c.suffix_font[1],
                   width |-> c.suffix_width]

\* the first run at or after (ci, p); <<Len + 1, 1>> when there is none
RECURSIVE next_run(_, _, _)
next_run(prepared, ci, p) ==
    IF ci > Len(prepared) THEN <<Len(prepared) + 1, 1>>
    ELSE IF run_present(prepared[ci], p) THEN <<ci, p>>
    ELSE IF p < 3 THEN next_run(prepared, ci, p + 1)
    ELSE next_run(prepared, ci + 1, 1)

run_after(prepared, ci, p) ==
    IF p < 3 THEN next_run(prepared, ci, p + 1)
    ELSE next_run(prepared, ci + 1, 1)

\* current_x += width, with one pixel of gap added
advance_gap(x, width) == x + width + 1

\* current_x += component.<run>_width
advance(x, width) == x + width

\* a for loop that stops one element early
elements_done_early(i, elements) == i >= Len(elements)

\* `for element in &orientation.elements` is exhausted
elements_done(i, elements) == i > Len(elements)

\* a transport error that is dropped instead of returned
question_mark_ignored(ok, next_pc) == next_pc

\* the ? operator on a transport result: Ok continues, Err returns
question_mark(ok, next_pc) == IF ok THEN next_pc ELSE "returned"

(***************************************************************************)
(* Start-up                                                                *)
(***************************************************************************)
\* the fields #[derive(Deserialize)] requires of a document
DisplayConfigFields == {"orientation", "width", "height", "elements"}

\* serde_json::from_str::<DisplayConfig>
from_str_ok(d) == d.valid_json /\ DisplayConfigFields \subseteq d.fields

\* the first error PoeDisplay::new returns, "none" when it returns Ok
new_error(fault, d) ==
    IF fault = "i2c" THEN "i2c"
    ELSE IF fault = "init" THEN "init"
    ELSE IF fault = "open" THEN "open"
    ELSE IF fault = "read" THEN "read"
    ELSE IF ~from_str_ok(d) THEN "json"
    ELSE IF fault = "open2" THEN "open"
    ELSE IF fault = "read2" THEN "read"
    ELSE "none"

\* main's match on PoeDisplay::new and on FanController::new
main_after_init(err, next_pc) == IF err = "none" THEN next_pc ELSE "exited"

\* Orientation::to_display_rotation
to_display_rotation(o) ==
    CASE o = "Portrait"  -> "Rotate90"
      [] o = "Landscape" -> "Rotate0"

\* initialize_display that rotates for every name but "landscape"
initialize_display_inverted(orientation) ==
    IF orientation = "landscape" THEN "Rotate0" ELSE "Rotate90"

\* let rotation = match orientation { "portrait" => Rotate90, _ => Rotate0 }
initialize_display(orientation) ==
    IF orientation = "portrait" THEN "Rotate90" ELSE "Rotate0"

\* a loop that gives up on a failed update
main_after_update_bail(r) == IF r = "Err" THEN "exited" ELSE "loop"

\* main's match on the result of update_display: both arms sleep and loop
main_after_update(r) == "loop"

get_default_display_config(hostname) ==
    [orientation |-> "landscape",
     width       |-> 128,
     height      |-> 32,
     elements    |-> <<
        [id |-> "hostname",
         position |-> [x |-> [kind |-> "Text", val |-> "center"],
                       y |-> [kind |-> "Number", val |-> 8]],
         components |-> <<[value  |-> [text |-> hostname, font |-> "FONT_6X12"],
                           prefix |-> <<>>,
                           suffix |-> <<>>]>>],
        [id |-> "hello_world",
         position |-> [x |-> [kind |-> "Text", val |-> "center"],
                       y |-> [kind |-> "Number", val |-> 22]],
         components |-> <<[value  |-> [text |-> <<"H", "e", "l", "l", "o", " ", "W", "o", "r", "l", "d", "!">>,
                                       font |-> "PCSENIOR8_STYLE"],
                           prefix |-> <<>>,
                           suffix |-> <<>>]>>] >>]

(***************************************************************************)
(* Inputs: configuration documents, orientation names, telemetry           *)
(***************************************************************************)
TextPV(v) == [kind |-> "Text", val |-> v]
NumberPV(n) == [kind |-> "Number", val |-> n]
RelativePV(a, n) == [kind |-> "Relative", align |-> a, anchor |-> n]

Run(text, font) == [text |-> text, font |-> font]
Component(value, prefix, suffix) ==
    [value |-> value, prefix |-> prefix, suffix |-> suffix]
Element(id, x, y, components) ==
    [id |-> id, position |-> [x |-> x, y |-> y], components |-> components]
Block(width, height, elements) ==
    [width |-> width, height |-> height, elements |-> elements]

L_CPU == <<"C", "P", "U">>
L_Cpu_usage == <<"C", "p", "u", "_", "u", "s", "a", "g", "e">>
L_degC == <<DegreeSign, "C">>
L_Hello == <<"H", "e", "l", "l", "o", " ", "W", "o", "r", "l", "d", "!">>

Tokens == {S_interface_phys, S_interface_numvlan, S_ip_info_0,
           S_ip_octets_0, S_ip_octets_1, S_ip_octets_2, S_ip_octets_3,
           S_cpu_usage, S_cpu_temp, S_ram_usage, S_disk_usage}

XPool ==
    {TextPV(k) : k \in {"center", "left", "right", "middle"}}
    \cup {NumberPV(10), NumberPV(-5)}
    \cup {RelativePV(a, n) : a \in {"center", "left", "right", "middle"},
                             n \in {64, -3}}

YPool ==
    {NumberPV(8), NumberPV(-4), TextPV("incrementing"), TextPV("bottom"),
     RelativePV("center", 20), RelativePV("right", 20)}

\* one-component lists of width 15, 45 and 96
WidthProbes ==
    {<<Component(Run(L_CPU, "FONT_5X8"), <<>>, <<>>)>>,
     <<Component(Run(L_Cpu_usage, "FONT_5X8"), <<>>, <<>>)>>,
     <<Component(Run(L_Hello, "PCSENIOR8_STYLE"), <<>>, <<>>)>>}

AffixPool ==
    {<<>>, <<Run(L_CPU, "FONT_5X8")>>, <<Run(S_cpu_usage, "PROFONT9")>>,
     <<Run(L_degC, "BOGUS")>>}

PositionElements ==
    {Element("pos", x, NumberPV(8), c) : x \in XPool, c \in WidthProbes}

YElements ==
    {Element("y", TextPV("left"), y,
             <<Component(Run(L_CPU, "FONT_5X8"), <<>>, <<>>)>>) : y \in YPool}

ValueElements ==
    {Element("val", TextPV("center"), NumberPV(8),
             <<Component(Run(t, "FONT_6X12"), <<>>, <<>>)>>) :
        t \in Tokens \cup {L_CPU, L_Cpu_usage, L_degC, <<>>}}

FontElements ==
    {Element("font", TextPV("right"), NumberPV(8),
             <<Component(Run(t, f), <<>>, <<>>)>>) :
        t \in {S_cpu_temp, L_degC, <<>>}, f \in FontNames \cup {"BOGUS"}}

AffixElements ==
    {Element("affix", TextPV("center"), NumberPV(8),
             <<Component(Run(S_cpu_temp, "PROFONT12"), p, s)>>) :
        p \in AffixPool, s \in AffixPool}

TwoComponents ==
    Element("two", RelativePV("center", 64), NumberPV(20),
            <<Component(Run(S_cpu_usage, "FONT_5X8"),
                        <<Run(L_CPU, "PROFONT9")>>, <<>>),
              Component(Run(S_ip_octets_0, "PCSENIOR8_STYLE"),
                        <<>>, <<Run(L_degC, "FONT_6X12")>>)>>)

NoComponents == Element("none", TextPV("center"), NumberPV(8), <<>>)

Incrementing(id) ==
    Element(id, TextPV("left"), TextPV("incrementing"),
            <<Component(Run(L_CPU, "FONT_5X8"), <<>>, <<>>)>>)

PortraitBlock ==
    Block(32, 128, <<Element("p", TextPV("center"), NumberPV(8),
                             <<Component(Run(S_ram_usage, "FONT_5X8"),
                                         <<>>, <<>>)>>)>>)

LandscapeBlocks ==
    {Block(w, 32, <<e>>) : w \in {128, 32}, e \in PositionElements}
    \cup {Block(128, 32, <<e>>) :
            e \in YElements \cup ValueElements \cup FontElements
                  \cup AffixElements}
    \cup {Block(128, 32, <<>>),
          Block(128, 32, <<NoComponents, TwoComponents>>),
          Block(128, 32, <<TwoComponents, TwoComponents>>),
          Block(128, 32, <<Incrementing("a"), Incrementing("b"),
                           Incrementing("c")>>)}

SingleShape == {"orientation", "width", "height", "elements"}
DualShape == {"orientations"}

\* a document: whether it is JSON, its top-level fields, the layout it holds
Document(valid_json, fields, landscape, portrait) ==
    [valid_json   |-> valid_json,
     fields       |-> fields,
     orientations |-> [landscape |-> landscape, portrait |-> portrait]]

DocPool ==
    {Document(TRUE, SingleShape, b, PortraitBlock) : b \in LandscapeBlocks}
    \cup {Document(TRUE, DualShape, Block(128, 32, <<TwoComponents>>),
                   PortraitBlock),
          Document(TRUE, {"orientation", "width", "height"},
                   Block(128, 32, <<>>), PortraitBlock),
          Document(FALSE, {}, Block(128, 32, <<>>), PortraitBlock)}

\* the documents of the liveness check: multi-element layouts and the
\* documents that do not load
LiveDocPool ==
    {d \in DocPool :
        \/ ~from_str_ok(d)
        \/ Len(d.orientations.landscape.elements) # 1}

OrientationNames == {"landscape", "portrait", "sideways"}

StartFaults == {"none", "i2c", "init", "open", "read", "open2", "read2"}

TelemetryPool ==
    {[interface_phys    |-> <<"e", "t", "h">>,
      interface_numvlan |-> <<"0", ".", "9", "9">>,
      ip_info           |-> <<<<"e", "t", "h", "0", ".", "9", "9">>,
                              <<"1", "9", "2", ".", "1", "6", "8", ".", "0", ".", "1">>,
                              <<192, 168, 0, 1>>>>,
      ip_octets         |-> <<192, 168, 0, 1>>,
      cpu_usage         |-> <<"4", "2", ".", "0">>,
      cpu_temp_str      |-> <<"5", "5", ".", "5">>,
      ram_usage         |-> <<"3", "7", ".", "2">>,
      disk_usage        |-> <<"6", "1", ".", "0">>],
     [interface_phys    |-> <<"N", "o", "I", "n", "t", "e", "r", "f", "a", "c", "e">>,
      interface_numvlan |-> <<>>,
      ip_info           |-> <<<<"N", "o", "I", "n", "t", "e", "r", "f", "a", "c", "e">>,
                              <<"0", ".", "0", ".", "0", ".", "0">>,
                              <<0, 0, 0, 0>>>>,
      ip_octets         |-> <<0, 0, 0, 0>>,
      cpu_usage         |-> <<"1", "0", "0", ".", "0">>,
      cpu_temp_str      |-> <<"4", "8", ".", "1">>,
      ram_usage         |-> <<"9", ".", "3">>,
      disk_usage        |-> <<>>]}

NoConfig == [orientations |-> [landscape |-> Block(0, 0, <<>>),
                               portrait  |-> Block(0, 0, <<>>)]]
NoTelemetry ==
    [interface_phys |-> <<>>, interface_numvlan |-> <<>>,
     ip_info |-> <<<<>>, <<>>, <<0, 0, 0, 0>>>>, ip_octets |-> <<0, 0, 0, 0>>,
     cpu_usage |-> <<>>, cpu_temp_str |-> <<>>, ram_usage |-> <<>>,
     disk_usage |-> <<>>]

(***************************************************************************)
(* State machine                                                           *)
(***************************************************************************)
InitWith(docs) ==
    /\ pc = "new"
    /\ doc \in docs
    /\ startup_error = "none"
    /\ rotation = "none"
    /\ init_orientation = "none"
    /\ config = NoConfig
    /\ orientation_name = "landscape"
    /\ telemetry = NoTelemetry
    /\ elem_i = 0
    /\ prepared_components = <<>>
    /\ total_element_width = 0
    /\ x_position = 0
    /\ y_position = 0
    /\ current_x = 0
    /\ comp_i = 1
    /\ part = 1
    /\ framebuffer = <<>>
    /\ fb_mark = 0
    /\ committed = <<>>
    /\ result = "none"
    /\ oplog = <<>>
    /\ committed_at_call = <<>>
    /\ consec_fail = 0

(***************************************************************************)
(* The host loop of main: the fan controller and the cached interface/IP   *)
(* list behind get_local_ip.  Temperatures are whole degrees; time since   *)
(* the last refresh is counted in seconds.                                 *)
(***************************************************************************)

MaxIterations == 151
TickStep == 150
NThreads == 2

MainThread == 0
NoThread == -1
Workers == 1..NThreads

Locks == {"IP_ADDRESSES", "CURRENT_INDEX", "LAST_IP_REFRESH"}

NoInterface == <<"NoInterface", "0.0.0.0", <<0, 0, 0, 0>>>>

\* what the parse of the output of `ip addr` can yield
ParsedPool ==
    { <<>>,
      << <<"eth0", "192.168.0.10", <<192, 168, 0, 10>>>>,
         <<"wlan0", "10.0.0.7", <<10, 0, 0, 7>>>> >>,
      << <<"eth0", "192.168.0.10", <<192, 168, 0, 10>>>>,
         <<"eth0.20", "172.16.20.1", <<172, 16, 20, 1>>>>,
         <<"wlan0", "10.0.0.7", <<10, 0, 0, 7>>>> >> }

CommandOutcomes == [ok : BOOLEAN, parsed : ParsedPool]

TempPool == {45, 50, 55, 60, 65}

DefaultThresholds == [on |-> 60, off |-> 50]

\* the default band, an inverted band and an empty band
ThresholdPool == {DefaultThresholds, [on |-> 50, off |-> 60], [on |-> 55, off |-> 55]}

NoCall == [refreshed |-> FALSE, returned |-> 0, dummy |-> FALSE]

refresh_interval == 300

network_check_every == 5

network_checks_per_clear == 15

collect_interface_ips_no_dummy(out) == IF out.ok THEN out.parsed ELSE <<NoInterface>>

collect_interface_ips(out) ==
    IF ~out.ok THEN <<NoInterface>>
    ELSE IF out.parsed = <<>> THEN <<NoInterface>>
    ELSE out.parsed

should_refresh_late(addresses, secs) == addresses = <<>> \/ secs > refresh_interval

should_refresh(addresses, secs) == addresses = <<>> \/ secs >= refresh_interval

fan_command_by_temperature(running, temp, on, off) ==
    IF temp >= on THEN "fan_on"
    ELSE IF temp <= off THEN "fan_off"
    ELSE "none"

fan_command(running, temp, on, off) ==
    IF running
    THEN IF temp <= off THEN "fan_off" ELSE "none"
    ELSE IF temp >= on THEN "fan_on" ELSE "none"

\* FanController::fan_on and fan_off: a successful command sets the flag
fan_on(running, ok) == IF ok THEN TRUE ELSE running

fan_off(running, ok) == IF ok THEN FALSE ELSE running

fan_after(cmd, running, ok) ==
    IF cmd = "fan_on" THEN fan_on(running, ok)
    ELSE IF cmd = "fan_off" THEN fan_off(running, ok)
    ELSE running

ip_changed(new, old) == new[2] # old[2] \/ new[1] # old[1]

unlock(h, l) == [h EXCEPT ![l] = NoThread]

clear_block_keep(h) == h

clear_block_drop(h) == unlock(h, "IP_ADDRESSES")

\* the last n entries of s
LastN(s, n) == IF Len(s) <= n THEN s ELSE SubSeq(s, Len(s) - n + 1, Len(s))

HostInitWith(thresholds) ==
    /\ hpc = "start"
    /\ iteration_count = 0
    /\ network_check_counter = 0
    /\ ip_info = NoInterface
    /\ previous_ip_info = NoInterface
    /\ is_running = FALSE
    /\ \E th \in thresholds : temp_on = th.on /\ temp_off = th.off
    /\ cpu_temp = 0
    /\ fan_log = <<>>
    /\ running_before = FALSE
    /\ initial_off = FALSE

CacheInit(threads) ==
    /\ IP_ADDRESSES = <<>>
    /\ CURRENT_INDEX = 0
    /\ elapsed = 0
    /\ holder = [l \in Locks |-> NoThread]
    /\ tpc = [t \in threads |-> "idle"]
    /\ ret = [t \in threads |-> NoInterface]
    /\ last_call = NoCall
    /\ window = <<>>


Init == InitWith(DocPool) /\ HostInitWith({DefaultThresholds}) /\ CacheInit({MainThread})

locals == <<elem_i, prepared_components, total_element_width, x_position,
            y_position, current_x, comp_i, part, fb_mark>>

display == <<framebuffer, committed, oplog, committed_at_call, result>>

\* PoeDisplay::new and main's match on its result
NewDisplay ==
    /\ pc = "new"
    /\ \E orientation \in OrientationNames, fault \in StartFaults :
         LET err == new_error(fault, doc)
         IN  /\ startup_error' = err
             /\ init_orientation' = orientation
             /\ rotation' = IF fault = "i2c" THEN rotation
                            ELSE initialize_display(orientation)
             /\ config' = IF err = "none"
                          THEN [orientations |-> doc.orientations]
                          ELSE config
             /\ pc' = main_after_init(err, "fan_init")
    /\ UNCHANGED <<doc, orientation_name, telemetry, locals, display,
                   consec_fail>>
    /\ UNCHANGED <<host_vars, cache_vars>>

\* FanController::new and main's match on its result
InitFan ==
    /\ pc = "fan_init"
    /\ \E ok \in BOOLEAN :
         /\ startup_error' = IF ok THEN "none" ELSE "fan"
         /\ pc' = main_after_init(startup_error', "loop")
    /\ UNCHANGED <<doc, rotation, init_orientation, config, orientation_name, telemetry,
                   locals, display, consec_fail>>
    /\ UNCHANGED <<host_vars, cache_vars>>

\* the loop body up to the call of update_display
BeginIteration ==
    /\ pc = "loop"
    /\ \E t \in TelemetryPool, name \in OrientationNames :
         /\ telemetry' = t
         /\ orientation_name' = name
    /\ oplog' = <<>>
    /\ committed_at_call' = committed
    /\ pc' = "clear"
    /\ UNCHANGED <<doc, startup_error, rotation, init_orientation, config, locals, framebuffer,
                   committed, result, consec_fail>>
    /\ UNCHANGED <<host_vars, cache_vars>>

\* disp.clear(BinaryColor::Off)?
Clear ==
    /\ pc = "clear"
    /\ \E ok \in BOOLEAN :
         /\ oplog' = Append(oplog, [op |-> "clear", ok |-> ok])
         /\ framebuffer' = IF ok THEN <<>> ELSE framebuffer
         /\ result' = IF ok THEN result ELSE "Err"
         /\ pc' = question_mark(ok, "element")
    /\ elem_i' = 1
    /\ UNCHANGED <<doc, startup_error, rotation, init_orientation, config, orientation_name,
                   telemetry, prepared_components, total_element_width,
                   x_position, y_position, current_x, comp_i, part, fb_mark,
                   committed, committed_at_call, consec_fail>>
    /\ UNCHANGED <<host_vars, cache_vars>>

\* one pass of `for element in &orientation.elements` up to the draw loop
PrepareElement ==
    /\ pc = "element"
    /\ LET orientation == orientation_block(config, orientation_name)
       IN  /\ ~elements_done(elem_i, orientation.elements)
           /\ LET element  == orientation.elements[elem_i]
                  prepared == prepare(element, telemetry)
                  width    == sum_total_width(prepared)
                  x        == resolve_x(element.position.x, orientation.width,
                                        width)
                  first    == next_run(prepared, 1, 1)
              IN  /\ prepared_components' = prepared
                  /\ total_element_width' = width
                  /\ x_position' = x
                  /\ y_position' = resolve_y(element.position.y)
                  /\ current_x' = x
                  /\ comp_i' = first[1]
                  /\ part' = first[2]
    /\ fb_mark' = Len(framebuffer)
    /\ pc' = "draw"
    /\ UNCHANGED <<doc, startup_error, rotation, init_orientation, config, orientation_name,
                   telemetry, elem_i, display, consec_fail>>
    /\ UNCHANGED <<host_vars, cache_vars>>

\* Text::new(text, Point::new(current_x, y_position), font).draw(disp)?
DrawRun ==
    /\ pc = "draw"
    /\ comp_i <= Len(prepared_components)
    /\ \E ok \in BOOLEAN :
         LET run  == run_at(prepared_components[comp_i], part)
             next == run_after(prepared_components, comp_i, part)
         IN  /\ oplog' = Append(oplog, [op |-> "draw", ok |-> ok])
             /\ framebuffer' =
                  IF ok THEN Append(framebuffer,
                                    [text |-> run.text, font |-> run.font,
                                     x |-> current_x, y |-> y_position])
                  ELSE framebuffer
             /\ current_x' = IF ok THEN advance(current_x, run.width)
                             ELSE current_x
             /\ comp_i' = IF ok THEN next[1] ELSE comp_i
             /\ part' = IF ok THEN next[2] ELSE part
             /\ result' = IF ok THEN result ELSE "Err"
             /\ pc' = question_mark(ok, "draw")
    /\ UNCHANGED <<doc, startup_error, rotation, init_orientation, config, orientation_name,
                   telemetry, elem_i, prepared_components,
                   total_element_width, x_position, y_position, fb_mark,
                   committed, committed_at_call, consec_fail>>
    /\ UNCHANGED <<host_vars, cache_vars>>

\* the draw loop is over: on to the next element
NextElement ==
    /\ pc = "draw"
    /\ comp_i > Len(prepared_components)
    /\ elem_i' = elem_i + 1
    /\ pc' = "element"
    /\ UNCHANGED <<doc, startup_error, rotation, init_orientation, config, orientation_name,
                   telemetry, prepared_components, total_element_width,
                   x_position, y_position, current_x, comp_i, part, fb_mark,
                   display, consec_fail>>
    /\ UNCHANGED <<host_vars, cache_vars>>

\* disp.flush()?; Ok(())
Flush ==
    /\ pc = "element"
    /\ elements_done(elem_i,
                     orientation_block(config, orientation_name).elements)
    /\ \E ok \in BOOLEAN :
         /\ oplog' = Append(oplog, [op |-> "flush", ok |-> ok])
         /\ committed' = IF ok THEN framebuffer ELSE committed
         /\ result' = IF ok THEN "Ok" ELSE "Err"
         /\ pc' = question_mark(ok, "returned")
    /\ UNCHANGED <<doc, startup_error, rotation, init_orientation, config, orientation_name,
                   telemetry, locals, framebuffer, committed_at_call,
                   consec_fail>>
    /\ UNCHANGED <<host_vars, cache_vars>>

\* main's match on the result of update_display, the sleep, the loop edge
EndIteration ==
    /\ pc = "returned"
    /\ consec_fail' = IF result = "Err"
                      THEN (IF consec_fail < MaxConsecFail
                            THEN consec_fail + 1 ELSE consec_fail)
                      ELSE 0
    /\ pc' = main_after_update(result)
    /\ elem_i' = 0
    /\ prepared_components' = <<>>
    /\ total_element_width' = 0
    /\ x_position' = 0
    /\ y_position' = 0
    /\ current_x' = 0
    /\ comp_i' = 1
    /\ part' = 1
    /\ fb_mark' = 0
    /\ UNCHANGED <<doc, startup_error, rotation, init_orientation, config, orientation_name,
                   telemetry, display>>
    /\ UNCHANGED <<host_vars, cache_vars>>

Next ==
    \/ NewDisplay
    \/ InitFan
    \/ BeginIteration
    \/ Clear
    \/ PrepareElement
    \/ DrawRun
    \/ NextElement
    \/ Flush
    \/ EndIteration

Spec == Init /\ [][Next]_vars

\* the main thread keeps running: no step of it is postponed forever
LiveInit == InitWith(LiveDocPool) /\ HostInitWith({DefaultThresholds}) /\ CacheInit({MainThread})

LiveSpec == LiveInit /\ [][Next]_vars /\ WF_vars(Next)

(***************************************************************************)
(* Properties                                                              *)
(***************************************************************************)
CurBlock == orientation_block(config, orientation_name)
CurElement == CurBlock.elements[elem_i]

\* the runs of the current element that are in the framebuffer
Drawn == SubSeq(framebuffer, fb_mark + 1, Len(framebuffer))

\* q is n / d rounded toward zero (d > 0)
IsTruncQuot(q, n, d) ==
    \E r \in (1 - d)..(d - 1) :
        /\ n = q * d + r
        /\ (r > 0 => n > 0)
        /\ (r < 0 => n < 0)

C2_RelativeX ==
    (pc = "draw" /\ CurElement.position.x.kind = "Relative") =>
        LET a == CurElement.position.x.align
            A == CurElement.position.x.anchor
            E == total_element_width
        IN  /\ a = "center" => IsTruncQuot(A - x_position, E, 2)
            /\ a = "left" => x_position = A
            /\ a = "right" => x_position = A - E
            /\ (a \in {"center", "left", "right"} /\ Drawn # <<>>) =>
                   Drawn[1].x = x_position

\* an element of odd width centered on an anchor, on the narrow canvas
C2_Witness ==
    /\ pc = "draw"
    /\ CurElement.position.x = RelativePV("center", 64)
    /\ total_element_width % 2 = 1
    /\ CurBlock.width = 32
    /\ Drawn # <<>>
    /\ Drawn[1].x = 64 - (total_element_width - 1) \div 2

\* the width the claim gives a run: characters times (cell width + spacing)
WidthByCharacters(text, font) ==
    chars_count(text) * (character_size_width(font) + character_spacing(font))

\* C3: the layout width of every value, prefix and suffix run is the number
\* of characters of its text times (cell width + spacing) of its font.
C3_WidthByCharacters ==
    pc = "draw" =>
        \A i \in 1..Len(prepared_components) :
            LET c == prepared_components[i]
            IN  /\ c.value_width = WidthByCharacters(c.value_text, c.value_font)
                /\ c.prefix_text # <<>> =>
                     c.prefix_width =
                        WidthByCharacters(c.prefix_text[1], c.prefix_font[1])
                /\ c.suffix_text # <<>> =>
                     c.suffix_width =
                        WidthByCharacters(c.suffix_text[1], c.suffix_font[1])

\* the runs of a prepared element in drawing order
RECURSIVE RunsInOrder(_)
RunsInOrder(prepared) ==
    IF prepared = <<>> THEN <<>>
    ELSE LET c == prepared[1]
         IN  (IF c.prefix_text = <<>> THEN <<>>
              ELSE <<[text |-> c.prefix_text[1], font |-> c.prefix_font[1],
                      width |-> c.prefix_width]>>)
             \o <<[text |-> c.value_text, font |-> c.value_font,
                   width |-> c.value_width]>>
             \o (IF c.suffix_text = <<>> THEN <<>>
                 ELSE <<[text |-> c.suffix_text[1], font |-> c.suffix_font[1],
                         width |-> c.suffix_width]>>)
             \o RunsInOrder(Tail(prepared))

\* the summed width of the first n runs
RECURSIVE WidthOfFirst(_, _)
WidthOfFirst(runs, n) ==
    IF n = 0 THEN 0 ELSE WidthOfFirst(runs, n - 1) + runs[n].width

\* C4: the runs of an element are drawn component by component, prefix then
\* value then suffix, each at the element's x origin plus the widths of the
\* runs before it and all at the same y; an absent prefix or suffix adds
\* nothing; after the last run the cursor is the origin plus the element
\* width, the sum of prefix + value + suffix widths over the components.
C4_RunsLaidOutInOrder ==
    pc = "draw" =>
        LET runs == RunsInOrder(prepared_components)
            comps == CurElement.components
        IN  /\ Len(prepared_components) = Len(comps)
            /\ \A i \in 1..Len(comps) :
                 /\ (comps[i].prefix = <<>>) =
                        (prepared_components[i].prefix_text = <<>>)
                 /\ (comps[i].suffix = <<>>) =
                        (prepared_components[i].suffix_text = <<>>)
                 /\ comps[i].prefix = <<>> =>
                        prepared_components[i].prefix_width = 0
                 /\ comps[i].suffix = <<>> =>
                        prepared_components[i].suffix_width = 0
            /\ Len(Drawn) <= Len(runs)
            /\ \A i \in 1..Len(Drawn) :
                 /\ Drawn[i].text = runs[i].text
                 /\ Drawn[i].font = runs[i].font
                 /\ Drawn[i].x = x_position + WidthOfFirst(runs, i - 1)
                 /\ Drawn[i].y = y_position
            /\ current_x = x_position + WidthOfFirst(runs, Len(Drawn))
            /\ comp_i > Len(prepared_components) =>
                 /\ Len(Drawn) = Len(runs)
                 /\ current_x = x_position + total_element_width
            /\ total_element_width = WidthOfFirst(runs, Len(runs))

\* both components of the two-component element drawn: prefix, value, then
\* value, suffix
C4_Witness ==
    /\ pc = "draw"
    /\ CurElement = TwoComponents
    /\ comp_i > Len(prepared_components)
    /\ Len(Drawn) = 4
    /\ Drawn[1].text = L_CPU
    /\ Drawn[4].text = L_degC
    /\ Drawn[4].x > Drawn[3].x

DigitValue(c) == CHOOSE d \in 0..9 : Digit(d) = c

RECURSIVE DecimalValue(_)
DecimalValue(s) ==
    IF s = <<>> THEN 0
    ELSE 10 * DecimalValue(SubSeq(s, 1, Len(s) - 1)) + DigitValue(s[Len(s)])

\* s is the decimal numeral of n, without leading zeros
IsNumeralOf(s, n) ==
    /\ Len(s) >= 1
    /\ \A i \in 1..Len(s) : \E d \in 0..9 : s[i] = Digit(d)
    /\ Len(s) > 1 => s[1] # "0"
    /\ DecimalValue(s) = n

\* out is what token resolution makes of the configured text src
Resolved(src, out) ==
    /\ src = S_interface_phys => out = telemetry.interface_phys
    /\ src = S_interface_numvlan => out = telemetry.interface_numvlan
    /\ src = S_ip_info_0 => out = telemetry.ip_info[1]
    /\ \A k \in 0..3 :
         src = <<"i", "p", "_", "o", "c", "t", "e", "t", "s", "(", Digit(k), ")">>
            => IsNumeralOf(out, telemetry.ip_octets[k + 1])
    /\ src = S_cpu_usage => out = telemetry.cpu_usage
    /\ src = S_cpu_temp => out = telemetry.cpu_temp_str
    /\ src = S_ram_usage => out = telemetry.ram_usage
    /\ src = S_disk_usage => out = telemetry.disk_usage
    /\ src \notin Tokens => out = src

\* C5 as claimed: value, prefix and suffix texts all go through token
\* resolution.
C5_AllRunsResolved ==
    pc = "draw" =>
        \A i \in 1..Len(prepared_components) :
            LET c == CurElement.components[i]
                q == prepared_components[i]
            IN  /\ Resolved(c.value.text, q.value_text)
                /\ c.prefix # <<>> =>
                     Resolved(c.prefix[1].text, q.prefix_text[1])
                /\ c.suffix # <<>> =>
                     Resolved(c.suffix[1].text, q.suffix_text[1])

\* C5 amended: only the value text goes through token resolution (an exact,
\* case-sensitive token becomes the telemetry string, any other text stays);
\* a prefix or suffix text is taken as configured, token or not.  Every run
\* is measured on the text it is drawn with.
C5_ValueResolvedAffixLiteral ==
    pc = "draw" =>
        \A i \in 1..Len(prepared_components) :
            LET c == CurElement.components[i]
                q == prepared_components[i]
            IN  /\ Resolved(c.value.text, q.value_text)
                /\ q.value_width =
                     str_len(q.value_text)
                       * get_char_width_from_text_style(q.value_font)
                /\ c.prefix # <<>> =>
                     /\ q.prefix_text = <<c.prefix[1].text>>
                     /\ q.prefix_width =
                          str_len(c.prefix[1].text)
                            * get_char_width_from_text_style(q.prefix_font[1])
                /\ c.suffix # <<>> =>
                     /\ q.suffix_text = <<c.suffix[1].text>>
                     /\ q.suffix_width =
                          str_len(c.suffix[1].text)
                            * get_char_width_from_text_style(q.suffix_font[1])

\* a component with a token as value and the text of a token as prefix,
\* both drawn: the value as telemetry, the prefix as written
C5_Witness ==
    /\ pc = "draw"
    /\ Len(CurElement.components) = 1
    /\ CurElement.components[1].value.text = S_cpu_temp
    /\ CurElement.components[1].prefix = <<Run(S_cpu_usage, "PROFONT9")>>
    /\ telemetry.cpu_temp_str = <<"5", "5", ".", "5">>
    /\ Len(Drawn) >= 2
    /\ Drawn[1].text = S_cpu_usage
    /\ Drawn[2].text = <<"5", "5", ".", "5">>

ConfigErrors == {"open", "read", "json"}

Hostnames == {<<"R", "u", "s", "t", "B", "e", "r", "r", "y">>}

\* C6: when the configuration cannot be opened, read or parsed, start-up
\* does not end the process; the built-in default configuration is used.
C6_ConfigErrorFallsBack ==
    startup_error \in ConfigErrors =>
        /\ pc # "exited"
        /\ \E h \in Hostnames : config = get_default_display_config(h)

\* C7: a well-formed document of the single-orientation shape and one of
\* the dual-orientation shape both load without a parse error.
C7_BothShapesLoad ==
    (pc # "new" /\ doc.valid_json /\ doc.fields \in {SingleShape, DualShape})
        => startup_error # "json"

Last(s) == s[Len(s)]

\* C8: in one call of update_display nothing follows the first failed
\* clear, draw or flush; the call returns that error, and the committed
\* frame is the one of the last successful flush.
C8_FirstFailureEndsCall ==
    /\ \A i \in 1..(Len(oplog) - 1) : oplog[i].ok
    /\ (oplog # <<>> /\ ~Last(oplog).ok) =>
         /\ pc \in {"returned", "loop"}
         /\ result = "Err"
         /\ committed = committed_at_call
    /\ committed # committed_at_call =>
         /\ oplog # <<>>
         /\ Last(oplog) = [op |-> "flush", ok |-> TRUE]
         /\ committed = framebuffer

\* a draw fails after a clear and a successful draw, over an earlier frame
C8_Witness ==
    /\ pc = "returned"
    /\ Len(oplog) >= 3
    /\ Last(oplog) = [op |-> "draw", ok |-> FALSE]
    /\ committed # <<>>
    /\ framebuffer # <<>>
    /\ framebuffer # committed

\* runs of a block: one per value, one per present prefix or suffix
RECURSIVE RunsOfComponents(_)
RunsOfComponents(comps) ==
    IF comps = <<>> THEN 0
    ELSE 1 + Len(comps[1].prefix) + Len(comps[1].suffix)
           + RunsOfComponents(Tail(comps))

RECURSIVE RunsOfElements(_)
RunsOfElements(elements) ==
    IF elements = <<>> THEN 0
    ELSE RunsOfComponents(elements[1].components)
           + RunsOfElements(Tail(elements))

\* C9: in a refresh cycle the clear is the first transport operation and
\* the only clear, no element is handled before it, and a flush is the last
\* operation and comes after every run of every element has been drawn.
C9_ClearDrawFlushOrder ==
    /\ \A i \in 1..Len(oplog) : (oplog[i].op = "clear") = (i = 1)
    /\ pc \in {"element", "draw"} => oplog # <<>> /\ oplog[1].ok
    /\ \A i \in 1..Len(oplog) :
         oplog[i].op = "flush" =>
            /\ i = Len(oplog)
            /\ i = RunsOfElements(CurBlock.elements) + 2
            /\ \A j \in 2..(i - 1) : oplog[j] = [op |-> "draw", ok |-> TRUE]
            /\ Len(framebuffer) = RunsOfElements(CurBlock.elements)

\* a cycle over two elements with four runs each, flushed
C9_Witness ==
    /\ pc = "returned"
    /\ Len(CurBlock.elements) = 2
    /\ Len(oplog) = 10
    /\ Last(oplog) = [op |-> "flush", ok |-> TRUE]
    /\ committed = framebuffer

\* C10: after every call of update_display, failed or not and whatever the
\* number of failures before it, the loop begins another cycle.
C10_LoopContinues ==
    \A n \in 0..MaxConsecFail :
        (pc = "returned" /\ consec_fail = n) ~> (pc = "clear")

\* a cycle begins after MaxConsecFail failed updates in a row
C10_Witness ==
    /\ pc = "clear"
    /\ oplog = <<>>
    /\ result = "Err"
    /\ consec_fail = MaxConsecFail

\* C11: a font name outside the five known names resolves to FONT_5X8 for
\* value, prefix and suffix alike; the run is prepared with a width of five
\* pixels per byte of its text and is drawn in FONT_5X8.
C11_UnknownFontFallsBack ==
    pc = "draw" =>
        /\ \A i \in 1..Len(prepared_components) :
             LET c == CurElement.components[i]
                 q == prepared_components[i]
             IN  /\ c.value.font \notin FontNames =>
                      /\ q.value_font = "FONT_5X8"
                      /\ q.value_width = 5 * str_len(q.value_text)
                 /\ (c.prefix # <<>> /\ c.prefix[1].font \notin FontNames) =>
                      /\ q.prefix_font = <<"FONT_5X8">>
                      /\ q.prefix_width = 5 * str_len(c.prefix[1].text)
                 /\ (c.suffix # <<>> /\ c.suffix[1].font \notin FontNames) =>
                      /\ q.suffix_font = <<"FONT_5X8">>
                      /\ q.suffix_width = 5 * str_len(c.suffix[1].text)
        /\ \A i \in 1..Len(Drawn) : Drawn[i].font \in FontNames
        /\ (Len(CurElement.components) = 1 /\ Len(Drawn) >= 1
            /\ CurElement.components[1].prefix # <<>>
            /\ CurElement.components[1].prefix[1].font \notin FontNames) =>
               Drawn[1].font = "FONT_5X8"
        /\ (Len(CurElement.components) = 1 /\ Len(Drawn) >= 1
            /\ CurElement.components[1].prefix = <<>>
            /\ CurElement.components[1].value.font \notin FontNames) =>
               Drawn[1].font = "FONT_5X8"

\* a value and a prefix with the font name BOGUS, both drawn in FONT_5X8
C11_Witness ==
    /\ pc = "draw"
    /\ Len(CurElement.components) = 1
    /\ CurElement.components[1].prefix = <<Run(L_degC, "BOGUS")>>
    /\ CurElement.components[1].suffix = <<Run(L_degC, "BOGUS")>>
    /\ comp_i > Len(prepared_components)
    /\ Len(Drawn) = 3
    /\ Drawn[1].font = "FONT_5X8"
    /\ Drawn[3].font = "FONT_5X8"
    /\ Drawn[2].x = x_position + 15

\* what the prepared components and the position of the current element
\* are when the element is element elem_i of block b
RendersBlock(b) ==
    /\ elem_i <= Len(b.elements)
    /\ LET e == b.elements[elem_i]
       IN  /\ Len(prepared_components) = Len(e.components)
           /\ \A i \in 1..Len(e.components) :
                /\ prepared_components[i].value_font
                     = font_of(e.components[i].value.font)
                /\ prepared_components[i].prefix_text
                     = affix_text(e.components[i].prefix)
                /\ prepared_components[i].suffix_text
                     = affix_text(e.components[i].suffix)
                /\ e.components[i].value.text \notin Tokens =>
                     prepared_components[i].value_text
                        = e.components[i].value.text
           /\ e.position.y.kind = "Number" => y_position = e.position.y.val
           /\ e.position.x = TextPV("right") =>
                x_position = b.width - total_element_width

\* C12: update_display renders the portrait block exactly when the
\* orientation name is "portrait" and the landscape block for every other
\* name; the rotation chosen at initialisation is Rotate90 exactly when the
\* name given there is "portrait" and Rotate0 for every other name.
C12_OrientationSelection ==
    /\ pc = "draw" =>
         /\ orientation_name = "portrait" =>
              RendersBlock(config.orientations.portrait)
         /\ orientation_name # "portrait" =>
              RendersBlock(config.orientations.landscape)
    /\ (pc = "returned" /\ result = "Ok") =>
         /\ orientation_name = "portrait" =>
              Len(committed) = RunsOfElements(config.orientations.portrait.elements)
         /\ orientation_name # "portrait" =>
              Len(committed) = RunsOfElements(config.orientations.landscape.elements)
    /\ rotation # "none" =>
         /\ init_orientation = "portrait" =>
              rotation = to_display_rotation("Portrait")
         /\ init_orientation # "portrait" =>
              rotation = to_display_rotation("Landscape")

\* an unrecognised name at initialisation and in the call: no rotation and
\* the landscape block, which differs from the portrait block, is flushed
C12_Witness ==
    /\ pc = "returned"
    /\ result = "Ok"
    /\ init_orientation = "sideways"
    /\ orientation_name = "sideways"
    /\ rotation = "Rotate0"
    /\ config.orientations.landscape.elements = <<TwoComponents, TwoComponents>>
    /\ Len(config.orientations.portrait.elements) = 1
    /\ Len(committed) = 8

\* C13: the y origin of an element depends on its own y spec only: a number
\* is used as it is, "incrementing" gives 0 whatever the element's place in
\* the list, an anchor-relative y gives the anchor whatever the align; every
\* run of the element is drawn at that y.
C13_VerticalOrigin ==
    pc = "draw" =>
        LET y == CurElement.position.y
        IN  /\ y.kind = "Number" => y_position = y.val
            /\ (y.kind = "Text" /\ y.val = "incrementing") => y_position = 0
            /\ y.kind = "Relative" => y_position = y.anchor
            /\ \A i \in 1..Len(Drawn) : Drawn[i].y = y_position

\* the third of three "incrementing" elements is drawn at y = 0, after the
\* two before it
C13_Witness ==
    /\ pc = "draw"
    /\ elem_i = 3
    /\ CurElement.position.y = TextPV("incrementing")
    /\ Len(framebuffer) = 3
    /\ \A i \in 1..3 : framebuffer[i].y = 0

\* C14 as claimed: a malformed x keyword, a malformed y keyword and a
\* malformed align of an anchor-relative position all resolve to 0.
C14_MalformedResolvesToZero ==
    pc = "draw" =>
        LET x == CurElement.position.x
            y == CurElement.position.y
        IN  /\ (x.kind = "Text" /\ x.val \notin {"center", "left", "right"})
                 => x_position = 0
            /\ (y.kind = "Text" /\ y.val # "incrementing") => y_position = 0
            /\ (x.kind = "Relative"
                /\ x.align \notin {"center", "left", "right"})
                 => x_position = 0

\* C14 amended: every element not yet handled is laid out, whatever its
\* content, and gets integer origins; a malformed x keyword and a
\* malformed y keyword resolve to 0, a malformed align of an
\* anchor-relative x resolves to the anchor, and an anchor-relative y is
\* the anchor whatever its align.
C14_LayoutTotal ==
    /\ (pc = "element" /\ elem_i <= Len(CurBlock.elements))
         => ENABLED PrepareElement
    /\ pc = "draw" =>
         LET x == CurElement.position.x
             y == CurElement.position.y
         IN  /\ x_position \in Int
             /\ y_position \in Int
             /\ \A i \in 1..Len(oplog) : oplog[i].ok
             /\ (x.kind = "Text" /\ x.val \notin {"center", "left", "right"})
                  => x_position = 0
             /\ (y.kind = "Text" /\ y.val # "incrementing") => y_position = 0
             /\ (x.kind = "Relative"
                 /\ x.align \notin {"center", "left", "right"})
                  => x_position = x.anchor
             /\ y.kind = "Relative" => y_position = y.anchor
             /\ Len(CurElement.components) = 0 =>
                  /\ comp_i > Len(prepared_components)
                  /\ Drawn = <<>>

\* an anchor-relative x with the align "middle" drawn at its anchor
C14_Witness ==
    /\ pc = "draw"
    /\ CurElement.position.x = RelativePV("middle", 64)
    /\ x_position = 64
    /\ Drawn # <<>>
    /\ Drawn[1].x = 64

(***************************************************************************)
(* get_local_ip and the cache-clearing block of main, one step per lock    *)
(* operation, for a thread t.                                              *)
(***************************************************************************)

at(t, from, to) == tpc[t] = from /\ tpc' = [tpc EXCEPT ![t] = to]

cache_data == <<IP_ADDRESSES, CURRENT_INDEX, elapsed, ret, last_call, window>>

\* main.rs 135: IP_ADDRESSES.lock() inside the clearing block
ClearLock(t) ==
    /\ at(t, "clear_lock", "clear")
    /\ holder["IP_ADDRESSES"] = NoThread
    /\ holder' = [holder EXCEPT !["IP_ADDRESSES"] = t]
    /\ UNCHANGED <<render_vars, host_vars, cache_data>>

\* main.rs 136-140: clear the list, the guard drops at the end of the block,
\* and get_local_ip is called next
ClearCache(t) ==
    /\ at(t, "clear", "lock_addresses")
    /\ IP_ADDRESSES' = IF IP_ADDRESSES # <<>> THEN <<>> ELSE IP_ADDRESSES
    /\ holder' = clear_block_drop(holder)
    /\ UNCHANGED <<render_vars, host_vars, CURRENT_INDEX, elapsed, ret, last_call, window>>

LockAddresses(t) ==
    /\ at(t, "lock_addresses", "lock_index")
    /\ holder["IP_ADDRESSES"] = NoThread
    /\ holder' = [holder EXCEPT !["IP_ADDRESSES"] = t]
    /\ UNCHANGED <<render_vars, host_vars, cache_data>>

LockIndex(t) ==
    /\ at(t, "lock_index", "lock_last_refresh")
    /\ holder["CURRENT_INDEX"] = NoThread
    /\ holder' = [holder EXCEPT !["CURRENT_INDEX"] = t]
    /\ UNCHANGED <<render_vars, host_vars, cache_data>>

LockLastRefresh(t) ==
    /\ at(t, "lock_last_refresh", "body")
    /\ holder["LAST_IP_REFRESH"] = NoThread
    /\ holder' = [holder EXCEPT !["LAST_IP_REFRESH"] = t]
    /\ UNCHANGED <<render_vars, host_vars, cache_data>>

\* main.rs 328-363, run with the three guards held
Body(t) ==
    /\ at(t, "body", "drop_last_refresh")
    /\ \E out \in CommandOutcomes :
         LET refresh == should_refresh(IP_ADDRESSES, elapsed)
             addresses == IF refresh THEN collect_interface_ips(out) ELSE IP_ADDRESSES
             index0 == IF refresh THEN 0 ELSE CURRENT_INDEX
             index1 == IF index0 >= Len(addresses) THEN 0 ELSE index0
         IN  /\ IP_ADDRESSES' = addresses
             /\ elapsed' = IF refresh THEN 0 ELSE elapsed
             /\ IF addresses = <<>>
                THEN /\ CURRENT_INDEX' = index0
                     /\ ret' = [ret EXCEPT ![t] = NoInterface]
                     /\ last_call' = [refreshed |-> refresh,
                                      returned |-> 0, dummy |-> TRUE]
                     /\ window' = IF refresh THEN <<>> ELSE window
                ELSE /\ CURRENT_INDEX' = (index1 + 1) % Len(addresses)
                     /\ ret' = [ret EXCEPT ![t] = addresses[index1 + 1]]
                     /\ last_call' = [refreshed |-> refresh,
                                      returned |-> index1, dummy |-> FALSE]
                     /\ window' = IF refresh THEN <<index1>>
                                  ELSE LastN(Append(window, index1), Len(addresses))
    /\ UNCHANGED <<render_vars, host_vars, holder>>

\* the guards drop in reverse order of declaration when the closure returns
DropLastRefresh(t) ==
    /\ at(t, "drop_last_refresh", "drop_index")
    /\ holder' = unlock(holder, "LAST_IP_REFRESH")
    /\ UNCHANGED <<render_vars, host_vars, cache_data>>

DropIndex(t) ==
    /\ at(t, "drop_index", "drop_addresses")
    /\ holder' = unlock(holder, "CURRENT_INDEX")
    /\ UNCHANGED <<render_vars, host_vars, cache_data>>

DropAddresses(t) ==
    /\ at(t, "drop_addresses", "done")
    /\ holder' = unlock(holder, "IP_ADDRESSES")
    /\ UNCHANGED <<render_vars, host_vars, cache_data>>

\* time passes
Tick ==
    /\ elapsed < refresh_interval
    /\ elapsed' = elapsed + TickStep
    /\ UNCHANGED <<render_vars, host_vars, IP_ADDRESSES, CURRENT_INDEX, holder,
                   tpc, ret, last_call, window>>

(***************************************************************************)
(* main from the initial fan_off (line 105) on, as thread MainThread.      *)
(* update_display is reduced here to its outcome.                          *)
(***************************************************************************)

fan_vars == <<is_running, temp_on, temp_off, cpu_temp, fan_log, running_before, initial_off>>

cache_rest == <<IP_ADDRESSES, CURRENT_INDEX, elapsed, holder, ret, last_call, window>>

\* main.rs 105-110
HostInitialFanOff ==
    /\ hpc = "start"
    /\ \E ok \in BOOLEAN : is_running' = fan_off(is_running, ok)
    /\ initial_off' = TRUE
    /\ hpc' = "ip_info"
    /\ at(MainThread, "idle", "lock_addresses")
    /\ UNCHANGED <<render_vars, iteration_count, network_check_counter, ip_info,
                   previous_ip_info, temp_on, temp_off, cpu_temp, fan_log,
                   running_before, cache_rest>>

\* main.rs 110-113
HostFirstIp ==
    /\ hpc = "ip_info"
    /\ ip_info' = ret[MainThread]
    /\ hpc' = "previous_ip_info"
    /\ at(MainThread, "done", "lock_addresses")
    /\ UNCHANGED <<render_vars, iteration_count, network_check_counter,
                   previous_ip_info, fan_vars, cache_rest>>

\* main.rs 113-114
HostSecondIp ==
    /\ hpc = "previous_ip_info"
    /\ previous_ip_info' = ret[MainThread]
    /\ network_check_counter' = 0
    /\ hpc' = "loop"
    /\ at(MainThread, "done", "idle")
    /\ UNCHANGED <<render_vars, iteration_count, ip_info, fan_vars, cache_rest>>

\* main.rs 116-143, up to the first lock operation
HostIterate ==
    /\ hpc = "loop"
    /\ iteration_count < MaxIterations
    /\ iteration_count' = iteration_count + 1
    /\ fan_log' = <<>>
    /\ IF iteration_count' % network_check_every = 0
       THEN /\ hpc' = "network_check"
            /\ IF network_check_counter + 1 >= network_checks_per_clear
               THEN /\ network_check_counter' = 0
                    /\ at(MainThread, "idle", "clear_lock")
               ELSE /\ network_check_counter' = network_check_counter + 1
                    /\ at(MainThread, "idle", "lock_addresses")
       ELSE /\ hpc' = "fan"
            /\ UNCHANGED <<network_check_counter, tpc>>
    /\ UNCHANGED <<render_vars, ip_info, previous_ip_info, is_running, temp_on,
                   temp_off, cpu_temp, running_before, initial_off, cache_rest>>

\* main.rs 143-149
HostNetworkCheck ==
    /\ hpc = "network_check"
    /\ ip_info' = ret[MainThread]
    /\ previous_ip_info' = IF ip_changed(ret[MainThread], previous_ip_info)
                           THEN ret[MainThread] ELSE previous_ip_info
    /\ hpc' = "fan"
    /\ at(MainThread, "done", "idle")
    /\ UNCHANGED <<render_vars, iteration_count, network_check_counter, fan_vars,
                   cache_rest>>

\* main.rs 152-171
HostFan ==
    /\ hpc = "fan"
    /\ \E temp \in TempPool, ok \in BOOLEAN :
         LET cmd == fan_command(is_running, temp, temp_on, temp_off)
         IN  /\ cpu_temp' = temp
             /\ running_before' = is_running
             /\ fan_log' = IF cmd = "none" THEN fan_log ELSE Append(fan_log, cmd)
             /\ is_running' = fan_after(cmd, is_running, ok)
    /\ hpc' = "update_display"
    /\ UNCHANGED <<render_vars, iteration_count, network_check_counter, ip_info,
                   previous_ip_info, temp_on, temp_off, initial_off, cache_vars>>

\* main.rs 190-212
HostUpdateDisplay ==
    /\ hpc = "update_display"
    /\ \E r \in {"Ok", "Err"} : hpc' = main_after_update(r)
    /\ UNCHANGED <<render_vars, iteration_count, network_check_counter, ip_info,
                   previous_ip_info, fan_vars, cache_vars>>

ThreadStep(t) ==
    \/ ClearLock(t)
    \/ ClearCache(t)
    \/ LockAddresses(t)
    \/ LockIndex(t)
    \/ LockLastRefresh(t)
    \/ Body(t)
    \/ DropLastRefresh(t)
    \/ DropIndex(t)
    \/ DropAddresses(t)

HostNext ==
    \/ HostInitialFanOff
    \/ HostFirstIp
    \/ HostSecondIp
    \/ HostIterate
    \/ HostNetworkCheck
    \/ HostFan
    \/ HostUpdateDisplay
    \/ ThreadStep(MainThread)
    \/ Tick

\* the document main was started with; rendering is idle in the host view
HostDocument == Document(TRUE, SingleShape, Block(128, 32, <<>>), PortraitBlock)

HostInit ==
    /\ InitWith({HostDocument})
    /\ HostInitWith(ThresholdPool)
    /\ CacheInit({MainThread})

HostSpec == HostInit /\ [][HostNext]_vars

(***************************************************************************)
(* C15: the fan is driven as a two-threshold hysteresis machine, checked   *)
(* once per cycle after an initial fan_off: in a cycle fan_on is requested *)
(* exactly when the flag was false and the temperature is at or above      *)
(* temp_on, fan_off exactly when the flag was true and the temperature is  *)
(* at or below temp_off, never both, and a temperature strictly between    *)
(* the two thresholds issues no command and leaves the flag as it was.     *)
(***************************************************************************)
Requested(cmd) == \E i \in 1..Len(fan_log) : fan_log[i] = cmd

C15_FanHysteresis ==
    /\ iteration_count >= 1 => initial_off
    /\ hpc \in {"network_check", "fan"} => fan_log = <<>>
    /\ hpc = "update_display" =>
         /\ Len(fan_log) <= 1
         /\ Requested("fan_on") <=> (~running_before /\ cpu_temp >= temp_on)
         /\ Requested("fan_off") <=> (running_before /\ cpu_temp <= temp_off)
         /\ fan_log = <<>> => is_running = running_before
         /\ (temp_off < cpu_temp /\ cpu_temp < temp_on) =>
              /\ fan_log = <<>>
              /\ is_running = running_before

C15_Witness ==
    /\ hpc = "update_display"
    /\ iteration_count >= 2
    /\ running_before
    /\ temp_off < cpu_temp
    /\ cpu_temp < temp_on
    /\ fan_log = <<>>
    /\ is_running

(***************************************************************************)
(* C16: a call of get_local_ip re-collects the interface list exactly when *)
(* the cache is empty or at least 300 seconds have passed since the last   *)
(* refresh, and otherwise leaves the list and the refresh time alone; the  *)
(* main loop calls get_local_ip only on iterations that are multiples of   *)
(* 5 and clears the cache on every 15th such check (every 75th iteration), *)
(* so the call of that iteration re-collects and restarts at entry 0.      *)
(***************************************************************************)
AfterBody == {"drop_last_refresh", "drop_index", "drop_addresses", "done"}

ClearPeriod == network_check_every * network_checks_per_clear

C16_LoopCalls ==
    /\ (iteration_count >= 1 /\ tpc[MainThread] # "idle") =>
         /\ hpc = "network_check"
         /\ iteration_count % 5 = 0
    /\ tpc[MainThread] \in {"clear_lock", "clear"} =>
         /\ iteration_count >= 1
         /\ iteration_count % 75 = 0
    /\ (hpc = "network_check" /\ iteration_count % 75 = 0
          /\ tpc[MainThread] \in AfterBody) =>
         /\ last_call.refreshed
         /\ ~last_call.dummy
         /\ last_call.returned = 0
         /\ ret[MainThread] = IP_ADDRESSES[1]
         /\ CURRENT_INDEX = 1 % Len(IP_ADDRESSES)

C16_CallStep ==
    \A t \in DOMAIN tpc :
       /\ (tpc[t] = "body" /\ tpc'[t] # "body") =>
            /\ last_call'.refreshed <=> (IP_ADDRESSES = <<>> \/ elapsed >= 300)
            /\ ~last_call'.refreshed =>
                 /\ IP_ADDRESSES' = IP_ADDRESSES
                 /\ elapsed' = elapsed
            /\ last_call'.refreshed =>
                 /\ elapsed' = 0
                 /\ last_call'.returned = 0
       /\ (IP_ADDRESSES # <<>> /\ IP_ADDRESSES' = <<>>) =>
            /\ hpc = "network_check"
            /\ iteration_count % 75 = 0

Returning(t) == tpc[t] \in {"drop_last_refresh", "drop_index", "drop_addresses"}

C17_AtReturn ==
    \A t \in DOMAIN tpc :
       Returning(t) =>
          /\ IP_ADDRESSES # <<>>
          /\ CURRENT_INDEX \in 0..(Len(IP_ADDRESSES) - 1)
          /\ ~last_call.dummy
          /\ last_call.returned \in 0..(Len(IP_ADDRESSES) - 1)
          /\ ret[t] = IP_ADDRESSES[last_call.returned + 1]
          /\ CURRENT_INDEX = (last_call.returned + 1) % Len(IP_ADDRESSES)

C17_Cyclic ==
    IP_ADDRESSES # <<>> =>
       LET n == Len(IP_ADDRESSES)
       IN  /\ CURRENT_INDEX \in 0..(n - 1)
           /\ Len(window) \in 1..n
           /\ \A i \in 1..(Len(window) - 1) : window[i + 1] = (window[i] + 1) % n
           /\ Last(window) = (CURRENT_INDEX + n - 1) % n
           /\ Len(window) < n => window[1] = 0
           /\ Len(window) = n => \A k \in 0..(n - 1) :
                Cardinality({i \in 1..n : window[i] = k}) = 1

C17_CallStep ==
    \A t \in DOMAIN tpc :
       (tpc[t] = "body" /\ tpc'[t] # "body" /\ ~last_call'.refreshed) =>
          /\ IP_ADDRESSES' = IP_ADDRESSES
          /\ last_call'.returned = CURRENT_INDEX
          /\ ret'[t] = IP_ADDRESSES[CURRENT_INDEX + 1]
          /\ CURRENT_INDEX' = (CURRENT_INDEX + 1) % Len(IP_ADDRESSES)

C17_RoundRobin == [](C17_AtReturn /\ C17_Cyclic) /\ [][C17_CallStep]_vars

C17_Witness ==
    /\ Returning(MainThread)
    /\ Len(IP_ADDRESSES) = 3
    /\ window = <<1, 2, 0>>
    /\ CURRENT_INDEX = 1
    /\ ret[MainThread] = IP_ADDRESSES[1]

(***************************************************************************)
(* Several threads running the two operations on the shared cache: the     *)
(* clearing block of main followed by its call of get_local_ip, or a call  *)
(* of get_local_ip alone.  A thread that keeps asking for IP_ADDRESSES is  *)
(* assumed to get it eventually; every other step only needs to be taken   *)
(* when it stays possible.                                                 *)
(***************************************************************************)

\* main.rs 143 on a plain network check
WorkerCall(t) ==
    /\ at(t, "idle", "lock_addresses")
    /\ UNCHANGED <<render_vars, host_vars, cache_rest>>

\* main.rs 130-143 on a clearing network check
WorkerClear(t) ==
    /\ at(t, "idle", "clear_lock")
    /\ UNCHANGED <<render_vars, host_vars, cache_rest>>

\* main.rs 143-150: the call has returned and its value is consumed
WorkerReturn(t) ==
    /\ at(t, "done", "idle")
    /\ ret' = [ret EXCEPT ![t] = NoInterface]
    /\ UNCHANGED <<render_vars, host_vars, IP_ADDRESSES, CURRENT_INDEX, elapsed,
                   holder, last_call, window>>

Acquire(t) == ClearLock(t) \/ LockAddresses(t)

Proceed(t) ==
    \/ ClearCache(t)
    \/ LockIndex(t)
    \/ LockLastRefresh(t)
    \/ Body(t)
    \/ DropLastRefresh(t)
    \/ DropIndex(t)
    \/ DropAddresses(t)

LockNext ==
    \/ \E t \in Workers : WorkerCall(t)
    \/ \E t \in Workers : WorkerClear(t)
    \/ \E t \in Workers : WorkerReturn(t)
    \/ \E t \in Workers : ThreadStep(t)
    \/ Tick

LockInit ==
    /\ InitWith({HostDocument})
    /\ HostInitWith({DefaultThresholds})
    /\ CacheInit(Workers)

LockSpec ==
    /\ LockInit
    /\ [][LockNext]_vars
    /\ \A t \in Workers : WF_vars(Proceed(t)) /\ SF_vars(Acquire(t))

(***************************************************************************)
(* C18: access to the shared cache cannot deadlock.  get_local_ip takes    *)
(* IP_ADDRESSES, CURRENT_INDEX and LAST_IP_REFRESH in that order and       *)
(* releases them all before it returns, main holds IP_ADDRESSES only       *)
(* while it clears the cache and not when it calls get_local_ip; so some   *)
(* thread inside an operation can always step, and every thread that has   *)
(* started an operation gets its call of get_local_ip returned.            *)
(***************************************************************************)
Held(t) == {l \in Locks : holder[l] = t}

InOperation(t) == tpc[t] \notin {"idle", "done"}

C18_LockOrder ==
    \A t \in DOMAIN tpc :
       /\ tpc[t] \in {"idle", "done", "clear_lock", "lock_addresses"} => Held(t) = {}
       /\ tpc[t] \in {"clear", "lock_index", "drop_addresses"} => Held(t) = {"IP_ADDRESSES"}
       /\ tpc[t] \in {"lock_last_refresh", "drop_index"} =>
            Held(t) = {"IP_ADDRESSES", "CURRENT_INDEX"}
       /\ tpc[t] \in {"body", "drop_last_refresh"} => Held(t) = Locks

C18_SomeThreadCanStep ==
    (\E t \in DOMAIN tpc : InOperation(t)) =>
       \E t \in DOMAIN tpc : InOperation(t) /\ ENABLED ThreadStep(t)

====
